---- MODULE Spec2Model ----
(***************************************************************************)
(* campus_buddy: the client-side reconciliation and voting logic of the    *)
(* four pages (confessions, feedback, lost & found, announcements).        *)
(*                                                                         *)
(* One page of one kind is modelled at a time: the pages share no state    *)
(* (each has its own localStorage keys and its own component state).       *)
(* Date.now() is the clock `now`; the sample records' offsets of k days    *)
(* are k ticks of it. A record id such as 'demo_fb_1' is the record        *)
(* [origin |-> "demo", tag |-> "fb", n |-> 1]; id.startsWith('demo_fb_')   *)
(* is origin = "demo" /\ tag = "fb".                                       *)
(***************************************************************************)
EXTENDS Integers, Sequences, FiniteSets, TLC

VARIABLES
    kind,      \* which page: "conf", "fb", "lf" or "ann"
    user,      \* useAuth().user.id
    now,       \* Date.now()
    remote,    \* the records held by the Remote Record Source
    srvSeq,    \* number of records the remote source has created
    items,     \* the useQuery data (feedback / confessions / items / announcements)
    local,     \* the useState list (localFeedback / localConfessions / ...)
    store,     \* localStorage['demo_feedback'] etc.: the persisted list
    ledger,    \* localStorage['demo_fb_votes_<user>'] etc.: user -> (id -> vote)
    pending,   \* remote calls in flight: mutation name -> its variables
    merged,    \* the useMemo value allFeedback / allConfessions / allItems / ...
    mpc,       \* "input" before the merge of SpecMerge has run, "done" after
    toast,     \* the last toast shown: which mutation, success or error
    refetch,   \* the refetch queryClient.invalidateQueries has started, if any
    run,       \* history: the current run of votes of one user on one record
    boot       \* history: the writes of the bootstrap effect

vars == << kind, user, now, remote, srvSeq, items, local, store, ledger,
           pending, merged, mpc, toast, refetch, run, boot >>

----------------------------------------------------------------------------
(* Bounds *)

MergeMaxTotal == 3     \* SpecMerge: Len(remote list) + Len(local list)
MergeMaxTs == 2        \* SpecMerge: timestamps 1..MergeMaxTs
StartNow == 10         \* Spec: the clock when the page is mounted
MaxTicks == 1          \* Spec: the clock advances at most this far
MaxCreates == 1        \* Spec: records created through the create form
MaxCreatesIds == 2     \* SpecIds: records created through the create form
MaxInflight == 1       \* Spec: remote calls in flight at a time
MaxTally == 2          \* Spec: a failed remote vote is not retried beyond this count
MaxSrvTally == 1       \* Spec: the remote source answers tallies 0..MaxSrvTally
MaxLikes == 30         \* Spec: a like that fails on a malformed ledger is not retried beyond this count
MaxDrift == 1          \* SpecRace: no vote is dispatched on a record whose tallies are further from the sample's

Kinds == {"conf", "fb", "lf", "ann"}
Users == {"u1", "u2"}
NoVote == "none"

----------------------------------------------------------------------------
(* Sequence helpers (Array.prototype.map / filter / find) *)

Range(s) == {s[i] : i \in 1..Len(s)}

Ids(s) == {s[i].id : i \in 1..Len(s)}

\* combined.find((f) => f.id === id) is truthy
HasId(s, id) == \E i \in 1..Len(s) : s[i].id = id

\* combined.find((f) => f.id === id)
FirstWithId(s, id) ==
    s[CHOOSE i \in 1..Len(s) : s[i].id = id /\ \A j \in 1..(i - 1) : s[j].id # id]

----------------------------------------------------------------------------
(* The merged collection: allFeedback, allConfessions, allItems,           *)
(* allAnnouncements                                                        *)

\* localFeedback.forEach((local) => { if (!combined.find(...)) combined.push(local) })
RECURSIVE PushLocals(_, _)
PushLocals(combined, locals) ==
    IF locals = << >> THEN combined
    ELSE PushLocals(IF HasId(combined, Head(locals).id)
                        THEN combined
                        ELSE Append(combined, Head(locals)),
                    Tail(locals))

\* One insertion of Array.prototype.sort with (a, b) => b.timestamp - a.timestamp:
\* x goes after every element that does not compare greater than it. The sort
\* of ECMAScript 2019 and later is stable.
RECURSIVE InsertUnstable(_, _)
InsertUnstable(sorted, x) ==
    IF sorted = << >> THEN << x >>
    ELSE IF Head(sorted).timestamp > x.timestamp
         THEN << Head(sorted) >> \o InsertUnstable(Tail(sorted), x)
         ELSE << x >> \o sorted

RECURSIVE InsertDesc(_, _)
InsertDesc(sorted, x) ==
    IF sorted = << >> THEN << x >>
    ELSE IF Head(sorted).timestamp >= x.timestamp
         THEN << Head(sorted) >> \o InsertDesc(Tail(sorted), x)
         ELSE << x >> \o sorted

RECURSIVE SortDesc(_)
SortDesc(s) ==
    IF s = << >> THEN << >>
    ELSE InsertDesc(SortDesc(SubSeq(s, 1, Len(s) - 1)), s[Len(s)])

\* Faulty variants of the merge: the local copy is not shadowed / wins.
CombineKeepAll(remoteList, localList) == remoteList \o localList

CombineLocalFirst(remoteList, localList) == PushLocals(localList, remoteList)

\* const combined = [...feedback]; localFeedback.forEach(...)
Combine(remoteList, localList) == PushLocals(remoteList, localList)

\* return combined.sort((a, b) => b.timestamp - a.timestamp)
AllRecords(remoteList, localList) == SortDesc(Combine(remoteList, localList))

----------------------------------------------------------------------------
(* Records *)

\* owner is reporterId (lost & found) or authorId (announcements)
MkRec(id, ts, up, down, likes, status, owner, title) ==
    [id |-> id, timestamp |-> ts, upvotes |-> up, downvotes |-> down,
     likes |-> likes, status |-> status, owner |-> owner, title |-> title]

MkId(origin, tag, n) == [origin |-> origin, tag |-> tag, n |-> n]

NoId == MkId("none", "none", 0)

\* history: no run of votes
NoRun == [user |-> "none", id |-> NoId, base |-> 0, ops |-> << >>]

\* history: runs of votes are not recorded
RunOff == [user |-> "off", id |-> NoId, base |-> 0, ops |-> << >>]

\* history: the writes of the bootstrap effect are not recorded
BootOff == [writes |-> 0, saw |-> << >>]

\* no toast on the screen; the others are "success" (toast.success) and
\* "error" (toast.error)
NoToast == "none"

\* no refetch under way; the others are "local" and "remote": the origin of
\* the record whose mutation called queryClient.invalidateQueries
NoFetch == "none"

----------------------------------------------------------------------------
(* SpecMerge: the merge as a pure function of a remote list and a local    *)
(* list drawn from bounded sets                                            *)

MergeIds == {MkId("srv", "fb", 1), MkId("srv", "fb", 2), MkId("local", "fb", 1)}

\* the fields besides id and timestamp, varied together
MergePayloads == {[up |-> 0, status |-> "pending"], [up |-> 1, status |-> "resolved"]}

MergeRecords ==
    {MkRec(id, ts, p.up, 0, 0, p.status, "other", "t") :
        id \in MergeIds, ts \in 1..MergeMaxTs, p \in MergePayloads}

InitMerge ==
    /\ kind = "fb"
    /\ user = "u1"
    /\ now = 0
    /\ remote = << >>
    /\ srvSeq = 0
    /\ \E i \in 0..MergeMaxTotal : \E j \in 0..(MergeMaxTotal - i) :
          /\ items \in [1..i -> MergeRecords]
          /\ local \in [1..j -> MergeRecords]
    /\ store = << >>
    /\ ledger = [u \in Users |-> << >>]
    /\ pending = << >>
    /\ merged = << >>
    /\ mpc = "input"
    /\ toast = NoToast
    /\ refetch = NoFetch
    /\ run = NoRun
    /\ boot = BootOff

\* One evaluation of the useMemo callback.
MergeStep ==
    /\ mpc = "input"
    /\ merged' = AllRecords(items, local)
    /\ mpc' = "done"
    /\ UNCHANGED << kind, user, now, remote, srvSeq, items, local, store,
                    ledger, pending, toast, refetch, run, boot >>

NextMerge == MergeStep

SpecMerge == InitMerge /\ [][NextMerge]_vars

----------------------------------------------------------------------------
(* Claims about the merge *)

DistinctIds(s) == \A i, j \in 1..Len(s) : s[i].id = s[j].id => i = j

\* indexes of the local records the merge retains: id not among the remote
\* ids, and the first local record of that id
KeptIdx(R, L) ==
    {i \in 1..Len(L) :
        /\ L[i].id \notin Ids(R)
        /\ \A j \in 1..(i - 1) : L[j].id # L[i].id}

\* C1 as stated: with a remote list of distinct ids, the merged collection
\* holds every remote record, every local record whose id is not a remote id,
\* nothing else, and no id twice.
C1_AsStated ==
    (mpc = "done" /\ DistinctIds(items)) =>
        /\ Range(items) \subseteq Range(merged)
        /\ \A l \in Range(local) : l.id \notin Ids(items) => l \in Range(merged)
        /\ \A m \in Range(merged) :
              m \in Range(items) \/ (m \in Range(local) /\ m.id \notin Ids(items))
        /\ DistinctIds(merged)

\* C1 amended: with a remote list of distinct ids, the merged collection holds
\* every remote record, for every id that occurs in the local list and not in
\* the remote list the first local record of that id, nothing else, and no id
\* twice.
C1_MergeContents ==
    (mpc = "done" /\ DistinctIds(items)) =>
        /\ Range(items) \subseteq Range(merged)
        /\ \A i \in KeptIdx(items, local) : local[i] \in Range(merged)
        /\ \A m \in Range(merged) :
              \/ m \in Range(items)
              \/ \E i \in KeptIdx(items, local) : local[i] = m
        /\ DistinctIds(merged)

\* a merge of a remote record and two local records that share an id and
\* differ in their fields
C1_Witness ==
    /\ mpc = "done"
    /\ DistinctIds(items)
    /\ items # << >>
    /\ \E i, j \in 1..Len(local) :
          /\ i < j
          /\ local[i].id = local[j].id
          /\ local[i] # local[j]
          /\ local[i].id \notin Ids(items)
    /\ Len(merged) = 2

\* C2: under an id that is both remote and local the merged collection shows
\* the remote copies and only them; a local copy that differs from the remote
\* one is not shown.
C2_RemoteWins ==
    mpc = "done" =>
        \A id \in Ids(items) \cap Ids(local) :
            /\ \A i \in 1..Len(merged) :
                  merged[i].id = id => merged[i] \in Range(items)
            /\ Cardinality({i \in 1..Len(merged) : merged[i].id = id})
                  = Cardinality({i \in 1..Len(items) : items[i].id = id})
            /\ \A l \in Range(local) :
                  (l.id = id /\ l \notin Range(items)) => l \notin Range(merged)

\* an id held remotely and locally with different tallies and status
C2_Witness ==
    /\ mpc = "done"
    /\ \E r \in Range(items) : \E l \in Range(local) :
          /\ r.id = l.id
          /\ r.upvotes # l.upvotes
          /\ r.status # l.status
          /\ r \in Range(merged)

\* x comes before y in the input order: remote records in remote order, then
\* the retained local records in local order
InputBefore(x, y) ==
    \/ \E p, q \in 1..Len(items) : p < q /\ items[p] = x /\ items[q] = y
    \/ /\ x \in Range(items)
       /\ \E k \in KeptIdx(items, local) : local[k] = y
    \/ \E k, m \in KeptIdx(items, local) : k < m /\ local[k] = x /\ local[m] = y

\* C3: the merged collection is ordered by timestamp descending, and records
\* of equal timestamp keep their input order.
C3_SortedStable ==
    mpc = "done" =>
        \A i, j \in 1..Len(merged) :
            i < j =>
                /\ merged[i].timestamp >= merged[j].timestamp
                /\ merged[i].timestamp = merged[j].timestamp
                      => InputBefore(merged[i], merged[j])

\* a tie between a remote and a local record, and a later record sorted first
C3_Witness ==
    /\ mpc = "done"
    /\ Len(merged) = 3
    /\ Len(items) >= 1 /\ Len(local) >= 1
    /\ merged[1].timestamp = merged[2].timestamp
    /\ merged[1] \in Range(items) /\ merged[2] \in Range(local)
    /\ merged[2].timestamp > merged[3].timestamp
    /\ merged # items \o local

----------------------------------------------------------------------------
(* The page: sample data, local-origin ids, the ledger                     *)

\* user?.role === 'admin'
IsAdmin(u) == u = "u1"

\* id.startsWith('demo_fb_') || id.startsWith('local_fb_') || id.startsWith('temp_fb_')
IsLocalId(k, id) == id.tag = k /\ id.origin \in {"demo", "local", "temp"}

\* The sample records the bootstrap writes (the first two of each page's six
\* or eight; the tallies, statuses and offsets in days are the source's).
DummyRecords(k, t) ==
    CASE k = "fb" ->
           << MkRec(MkId("demo", "fb", 1), t - 3, 15, 0, 0, "resolved", "none", "Great Library Facilities"),
              MkRec(MkId("demo", "fb", 2), t - 1, 42, 3, 0, "pending", "none", "Cafeteria Food Quality") >>
      [] k = "conf" ->
           << MkRec(MkId("demo", "conf", 1), t - 2, 23, 1, 0, "pending", "none", "Lecture Hall Crush"),
              MkRec(MkId("demo", "conf", 2), t - 1, 18, 0, 0, "pending", "none", "Group Project Feelings") >>
      [] k = "lf" ->
           << MkRec(MkId("demo", "lf", 1), t - 2, 0, 0, 0, "lost", "other", "Lost iPhone 14 Pro"),
              MkRec(MkId("demo", "lf", 2), t - 1, 0, 0, 0, "found", "other", "Found Blue Backpack") >>
      [] k = "ann" ->
           << MkRec(MkId("demo", "ann", 1), t - 2, 0, 0, 12, "high", "other", "Library Closure This Weekend"),
              MkRec(MkId("demo", "ann", 2), t - 5, 0, 0, 28, "medium", "other", "Hackathon Registration Open") >>

\* LEGACY_CONFESSION_TITLES (one of its ten titles)
LegacyTitles == {"Feeling Homesick"}

\* LEGACY_CONFESSION_TITLES.has(c.title)
IsLegacy(rec) == rec.title \in LegacyTitles

\* a faulty condition that also fires while a single record is left
BootstrapWantedEager(k, all) ==
    IF k = "conf"
        THEN \E i \in 1..Len(all) : IsLegacy(all[i])
        ELSE Len(all) <= 1

\* the condition of the bootstrap effect
BootstrapWanted(k, all) ==
    IF k = "conf"
        THEN \A i \in 1..Len(all) : IsLegacy(all[i])
        ELSE Len(all) = 0

\* The render after a state change and the bootstrap effect it runs: the
\* effect depends on the length of the merged collection (and runs on mount).
Settle(k, oldLen, it, lo, st, t) ==
    LET all == AllRecords(it, lo) IN
    IF Len(all) # oldLen /\ BootstrapWanted(k, all)
        THEN [local |-> DummyRecords(k, t), store |-> DummyRecords(k, t), seeded |-> TRUE]
        ELSE [local |-> lo, store |-> st, seeded |-> FALSE]

\* a value under a ledger key that is not JSON
MalformedMap == [i \in {NoId} |-> "malformed"]

\* JSON.parse(stored) throws a SyntaxError
ParseThrows(raw) == raw = MalformedMap

\* voteMap[id], likedMap[id]
MapGet(m, id) == IF id \in DOMAIN m THEN m[id] ELSE NoVote

\* voteMap[id] = v
MapSet(m, id, v) == [i \in DOMAIN m \cup {id} |-> IF i = id THEN v ELSE m[i]]

\* delete voteMap[id]
MapDel(m, id) == [i \in DOMAIN m \ {id} |-> m[i]]

MapPut(m, id, v) == IF v = NoVote THEN MapDel(m, id) ELSE MapSet(m, id, v)

NoClamp(n) == n

\* Math.max(0, n)
Max0(n) == IF n < 0 THEN 0 ELSE n


----------------------------------------------------------------------------
(* The vote and like transitions of one record *)

\* the ledger entry after the vote: toggle if the same type
NewVote(previousVote, voteType) ==
    IF voteType = previousVote THEN NoVote ELSE voteType

\* the body of prev.map for the voted record: remove the previous vote, then
\* apply the new one unless it is the same type
VoteRecord(rec, previousVote, voteType) ==
    LET up1 == IF previousVote = "up" THEN Max0(rec.upvotes - 1) ELSE rec.upvotes
        down1 == IF previousVote = "down" THEN Max0(rec.downvotes - 1) ELSE rec.downvotes
        same == voteType = previousVote
    IN [rec EXCEPT
          !.upvotes = IF ~same /\ voteType = "up" THEN up1 + 1 ELSE up1,
          !.downvotes = IF ~same /\ voteType = "down" THEN down1 + 1 ELSE down1]

\* a vote that forgets to take back the previous one
VoteLocalNoRetract(lo, voteMap, id, voteType) ==
    [local |-> [i \in 1..Len(lo) |->
                   IF lo[i].id = id
                       THEN VoteRecord(lo[i], NoVote, voteType)
                       ELSE lo[i]],
     voteMap |-> IF HasId(lo, id) THEN MapSet(voteMap, id, voteType) ELSE voteMap,
     resolved |-> HasId(lo, id)]

\* a retraction that leaves the ledger entry in place
VoteLocalKeepEntry(lo, voteMap, id, voteType) ==
    [local |-> [i \in 1..Len(lo) |->
                   IF lo[i].id = id
                       THEN VoteRecord(lo[i], MapGet(voteMap, id), voteType)
                       ELSE lo[i]],
     voteMap |-> IF HasId(lo, id) THEN MapSet(voteMap, id, voteType) ELSE voteMap,
     resolved |-> HasId(lo, id)]

\* voteMutation.mutationFn on a local-origin id: the ledger is read, every
\* record of that id is revoted, the ledger is written from inside the map
\* callback (so only if a record was found, and the promise resolves only then)
VoteLocal(lo, voteMap, id, voteType) ==
    LET previousVote == MapGet(voteMap, id) IN
    [local |-> [i \in 1..Len(lo) |->
                   IF lo[i].id = id
                       THEN VoteRecord(lo[i], previousVote, voteType)
                       ELSE lo[i]],
     voteMap |-> IF HasId(lo, id)
                    THEN MapPut(voteMap, id, NewVote(previousVote, voteType))
                    ELSE voteMap,
     resolved |-> HasId(lo, id)]

\* a like that never unlikes
LikeLocalAlwaysAdd(lo, likedMap, id) ==
    [local |-> [i \in 1..Len(lo) |->
                   IF lo[i].id = id
                       THEN [lo[i] EXCEPT !.likes = Max0(lo[i].likes + 1)]
                       ELSE lo[i]],
     voteMap |-> IF HasId(lo, id) THEN MapSet(likedMap, id, "liked") ELSE likedMap,
     resolved |-> HasId(lo, id)]

\* likeMutation.onSuccess: ann.id === id ? { ...ann, likes: result.likes } : ann
SetLikes(lo, id, likes) ==
    [i \in 1..Len(lo) |->
        IF lo[i].id = id THEN [lo[i] EXCEPT !.likes = likes] ELSE lo[i]]

\* likeMutation.mutationFn on a local-origin id, followed by its onSuccess,
\* which has no local-origin test and writes result.likes (the likes of the
\* first record found) to the records of that id
LikeLocal(lo, likedMap, id) ==
    LET alreadyLiked == MapGet(likedMap, id) = "liked"
        delta == IF alreadyLiked THEN -1 ELSE 1
        found == HasId(lo, id)
        mapped == [i \in 1..Len(lo) |->
                      IF lo[i].id = id
                          THEN [lo[i] EXCEPT !.likes = Max0(lo[i].likes + delta)]
                          ELSE lo[i]]
    IN
    [local |-> IF found THEN SetLikes(mapped, id, FirstWithId(mapped, id).likes)
                        ELSE lo,
     voteMap |-> IF found
                    THEN (IF alreadyLiked THEN MapDel(likedMap, id)
                                          ELSE MapSet(likedMap, id, "liked"))
                    ELSE likedMap,
     resolved |-> found]

\* voteMutation.onSuccess for a remote-tracked id: the server tallies replace
\* the local copy's
SetTallies(lo, id, up, down) ==
    [i \in 1..Len(lo) |->
        IF lo[i].id = id
            THEN [lo[i] EXCEPT !.upvotes = up, !.downvotes = down]
            ELSE lo[i]]

\* voteMutation.onError for a remote-tracked id: the local copy's count of the
\* requested direction goes up by one
BumpVote(lo, id, voteType) ==
    [i \in 1..Len(lo) |->
        IF lo[i].id = id
            THEN (IF voteType = "up"
                      THEN [lo[i] EXCEPT !.upvotes = lo[i].upvotes + 1]
                      ELSE [lo[i] EXCEPT !.downvotes = lo[i].downvotes + 1])
            ELSE lo[i]]

\* likeMutation.onError: likes: Math.max(0, (ann.likes || 0) + 1)
BumpLike(lo, id) ==
    [i \in 1..Len(lo) |->
        IF lo[i].id = id
            THEN [lo[i] EXCEPT !.likes = Max0(lo[i].likes + 1)]
            ELSE lo[i]]

\* prev.map((fb) => fb.id === id ? { ...fb, status } : fb)
SetStatus(lo, id, status) ==
    [i \in 1..Len(lo) |->
        IF lo[i].id = id THEN [lo[i] EXCEPT !.status = status] ELSE lo[i]]

\* prev.filter((fb) => fb.id !== id)
RECURSIVE RemoveId(_, _)
RemoveId(lo, id) ==
    IF lo = << >> THEN << >>
    ELSE IF Head(lo).id = id
         THEN RemoveId(Tail(lo), id)
         ELSE << Head(lo) >> \o RemoveId(Tail(lo), id)

----------------------------------------------------------------------------
(* The page as a state machine *)

\* the record the remote source holds when the page is first opened, if any
\* (for confessions one with a legacy title)
SeedRemote(k) ==
    MkRec(MkId("srv", k, 0), StartNow - 4, 1, 0, 1, "pending", "u2",
          IF k = "conf" THEN "Feeling Homesick" ELSE "t")

\* status / priority of a record made by the create form
FormStatus(k) ==
    CASE k = "lf" -> "lost" [] k = "ann" -> "medium" [] OTHER -> "pending"

\* reporterId / authorId of a record made by the create form
FormOwner(k, u) == IF k \in {"lf", "ann"} THEN u ELSE "none"

\* upvotes + downvotes, or likes
Total(rec) == IF kind = "ann" THEN rec.likes ELSE rec.upvotes + rec.downvotes

\* history: what one operation of a run found: its direction, the record's
\* counts and the user's ledger entry before it
OpEntry(dir, rec, vote) ==
    [dir |-> dir, up |-> rec.upvotes, down |-> rec.downvotes,
     likes |-> rec.likes, vote |-> vote]

\* history: a vote or like of user u on record id continues the current run
\* of u on id or starts a new one; a run remembers the record's total before
\* its first operation and what its last two operations found
RunFor(u, id, dir) ==
    IF run = RunOff THEN RunOff
    ELSE IF ~HasId(local, id) THEN NoRun
    ELSE LET e == OpEntry(dir, FirstWithId(local, id), MapGet(ledger[u], id)) IN
         IF run.user = u /\ run.id = id
             THEN [run EXCEPT !.ops = IF Len(run.ops) = 2
                                          THEN << run.ops[2], e >>
                                          ELSE Append(run.ops, e)]
             ELSE [user |-> u, id |-> id,
                   base |-> Total(FirstWithId(local, id)), ops |-> << e >>]

Req(id, arg) == [id |-> id, arg |-> arg]

Drop(name) == [n \in DOMAIN pending \ {name} |-> pending[n]]

Send(name, req) == [n \in DOMAIN pending \cup {name} |-> IF n = name THEN req ELSE pending[n]]

Idle(name) == name \notin DOMAIN pending

CanSend(name) == Idle(name) /\ Cardinality(DOMAIN pending) < MaxInflight

\* history: the bootstrap effect writes the sample set, having found the
\* merged collection `all`; the count stops at two
BootWrite(all) ==
    IF boot = BootOff THEN BootOff
    ELSE [writes |-> IF boot.writes >= 1 THEN 2 ELSE 1, saw |-> all]

\* a state change is committed: render, bootstrap effect, merged collection
Commit(it, lo, st, newRun) ==
    LET r == Settle(kind, Len(merged), it, lo, st, now) IN
    /\ items' = it
    /\ local' = r.local
    /\ store' = r.store
    /\ merged' = AllRecords(it, r.local)
    /\ run' = IF run = RunOff THEN RunOff
              ELSE IF r.seeded THEN NoRun ELSE newRun
    /\ boot' = IF r.seeded THEN BootWrite(AllRecords(it, lo)) ELSE boot

Init ==
    /\ kind \in Kinds
    /\ user \in Users
    /\ now = StartNow
    /\ remote \in {<< >>, << SeedRemote(kind) >>}
    /\ srvSeq = 0
    /\ items = << >>
    /\ local = DummyRecords(kind, StartNow)
    /\ store = DummyRecords(kind, StartNow)
    /\ ledger = [u \in Users |-> << >>]
    /\ pending = << >>
    /\ merged = AllRecords(<< >>, DummyRecords(kind, StartNow))
    /\ mpc = "done"
    /\ toast = NoToast
    /\ refetch = NoFetch
    /\ run \in {RunOff, NoRun}
    /\ boot \in {BootOff, [writes |-> 1, saw |-> << >>]}

\* time passes
Tick ==
    /\ now < StartNow + MaxTicks
    /\ now' = now + 1
    /\ UNCHANGED << kind, user, remote, srvSeq, items, local, store, ledger,
                    pending, merged, mpc, toast, refetch, run, boot >>

\* The page is opened again, by the same or another user: the local list is
\* read from localStorage, the query has no data yet, the effect runs on mount.
Remount(u) ==
    /\ pending = << >>
    /\ user' = u
    /\ LET r == Settle(kind, -1, << >>, store, store, now) IN
          /\ items' = << >>
          /\ local' = r.local
          /\ store' = r.store
          /\ merged' = AllRecords(<< >>, r.local)
          /\ boot' = IF r.seeded THEN BootWrite(AllRecords(<< >>, store)) ELSE boot
    /\ run' = IF run = RunOff THEN RunOff ELSE NoRun
    /\ toast' = NoToast
    /\ refetch' = NoFetch
    /\ UNCHANGED << kind, now, remote, srvSeq, ledger, pending, mpc >>

\* the query (on mount, on window focus, after invalidateQueries) succeeds
FetchOk ==
    /\ items # remote \/ refetch # NoFetch
    /\ Commit(remote, local, store, run)
    /\ refetch' = NoFetch
    /\ UNCHANGED << kind, user, now, remote, srvSeq, ledger, pending, mpc, toast >>

\* the refetch fails (retry: false): the query keeps the data it had
FetchFail ==
    /\ refetch # NoFetch
    /\ refetch' = NoFetch
    /\ UNCHANGED << kind, user, now, remote, srvSeq, items, local, store,
                    ledger, pending, merged, mpc, toast, run, boot >>

\* a filter that is part of the query key changes: the query has no data for
\* the new key until its fetch answers (data?.data || [])
FilterChange ==
    /\ items # << >>
    /\ Commit(<< >>, local, store, run)
    /\ UNCHANGED << kind, user, now, remote, srvSeq, ledger, pending, mpc,
                    toast, refetch >>

\* createMutation.mutate(formData), while fewer than n created records exist
CreateDispatchUpTo(n) ==
    /\ CanSend("create")
    /\ srvSeq + Cardinality({i \in 1..Len(local) : local[i].id.origin = "local"})
          < n
    /\ pending' = Send("create", Req(NoId, NoVote))
    /\ UNCHANGED << kind, user, now, remote, srvSeq, items, local, store,
                    ledger, merged, mpc, toast, refetch, run, boot >>

\* createMutation.mutate(formData)
CreateDispatch == CreateDispatchUpTo(MaxCreates)

\* a faulty onSuccess that prepends to the list as it was on mount
CreateOkStale ==
    /\ ~Idle("create")
    /\ LET rec == MkRec(MkId("srv", kind, srvSeq + 1), now, 0, 0, 0,
                        FormStatus(kind), user, "t")
           lo == IF kind = "conf" THEN local
                 ELSE << rec >> \o DummyRecords(kind, StartNow)
           st == IF kind = "conf" THEN store ELSE lo
       IN /\ remote' = << rec >> \o remote
          /\ Commit(items, lo, st, NoRun)
    /\ srvSeq' = srvSeq + 1
    /\ pending' = Drop("create")
    /\ toast' = "success"
    /\ refetch' = "remote"
    /\ UNCHANGED << kind, user, now, ledger, mpc >>

\* createMutation.onSuccess with the record the server made
CreateOk ==
    /\ ~Idle("create")
    /\ LET rec == MkRec(MkId("srv", kind, srvSeq + 1), now, 0, 0, 0,
                        FormStatus(kind), user, "t")
           lo == CASE kind \in {"fb", "lf"} -> << rec >> \o local
                   [] kind = "ann" -> << rec >> \o RemoveId(local, rec.id)
                   [] OTHER -> local
           st == IF kind = "conf" THEN store ELSE lo
       IN /\ remote' = << rec >> \o remote
          /\ Commit(items, lo, st, NoRun)
    /\ srvSeq' = srvSeq + 1
    /\ pending' = Drop("create")
    /\ toast' = "success"
    /\ refetch' = "remote"
    /\ UNCHANGED << kind, user, now, ledger, mpc >>

\* createMutation.onError: a local-only record, except for confessions
CreateFail ==
    /\ ~Idle("create")
    /\ LET rec == MkRec(MkId("local", kind, now), now, 0, 0, 0,
                        FormStatus(kind), FormOwner(kind, user), "t")
           lo == IF kind = "conf" THEN local ELSE << rec >> \o local
           st == IF kind = "conf" THEN store ELSE lo
       IN Commit(items, lo, st, NoRun)
    /\ pending' = Drop("create")
    /\ toast' = IF kind = "conf" THEN "error" ELSE "success"
    /\ UNCHANGED << kind, user, now, remote, srvSeq, ledger, mpc, refetch >>

\* a faulty write under one key for all users
WriteLedgerShared(u, voteMap) == [b \in Users |-> voteMap]

\* localStorage.setItem(`demo_fb_votes_${userId}`, JSON.stringify(voteMap))
WriteLedger(u, voteMap) == [ledger EXCEPT ![u] = voteMap]

\* try { JSON.parse(stored) } catch { return null }: the ledger as the
\* display reads it
ReadLedger(u) == IF ParseThrows(ledger[u]) THEN << >> ELSE ledger[u]

\* getUserVoteForFeedback(id), hasUserLikedAnnouncement(id) for the user u
UserVoteFor(u, id) == MapGet(ReadLedger(u), id)

\* the record shown under an id
Shown(id) == FirstWithId(merged, id)

\* handleVote(id, voteType) -> voteMutation.mutationFn
Vote(id, voteType) ==
    /\ kind \in {"conf", "fb"}
    /\ HasId(merged, id)
    /\ Idle("vote")
    /\ IF IsLocalId(kind, id) /\ ParseThrows(ledger[user])
          \* JSON.parse(stored) throws inside mutationFn; onError finds a
          \* local-origin id and only reports
          THEN /\ toast' = "error"
               /\ UNCHANGED << ledger, items, local, store, merged, pending,
                               run, boot >>
          ELSE IF IsLocalId(kind, id)
          THEN LET r == VoteLocal(local, ledger[user], id, voteType) IN
               /\ ledger' = WriteLedger(user, r.voteMap)
               /\ Commit(items, r.local, r.local,
                         IF r.resolved THEN RunFor(user, id, voteType) ELSE run)
               \* the promise of a vote that found no record never settles
               /\ pending' = IF r.resolved THEN pending
                             ELSE Send("vote", Req(id, "stuck"))
               /\ toast' = toast
          ELSE /\ CanSend("vote")
               /\ \A i \in 1..Len(local) :
                     local[i].id = id => Total(local[i]) < MaxTally
               /\ pending' = Send("vote", Req(id, voteType))
               /\ run' = RunFor(user, id, voteType)
               /\ UNCHANGED << ledger, items, local, store, merged, boot,
                               toast >>
    /\ UNCHANGED << kind, user, now, remote, srvSeq, mpc, refetch >>

\* apiService.feedback.vote answers; voteMutation.onSuccess
VoteOk ==
    /\ ~Idle("vote")
    /\ pending["vote"].arg # "stuck"
    /\ HasId(remote, pending["vote"].id)
    /\ \E up, down \in 0..MaxSrvTally :
          /\ remote' = SetTallies(remote, pending["vote"].id, up, down)
          /\ LET lo == SetTallies(local, pending["vote"].id, up, down) IN
                Commit(items, lo, lo, NoRun)
    /\ pending' = Drop("vote")
    /\ refetch' = "remote"
    /\ UNCHANGED << kind, user, now, srvSeq, ledger, mpc, toast >>

\* apiService.feedback.vote fails; voteMutation.onError (no setItem)
VoteFail ==
    /\ ~Idle("vote")
    /\ pending["vote"].arg # "stuck"
    /\ Commit(items, BumpVote(local, pending["vote"].id, pending["vote"].arg),
              store, run)
    /\ pending' = Drop("vote")
    /\ toast' = "error"
    /\ UNCHANGED << kind, user, now, remote, srvSeq, ledger, mpc, refetch >>

\* likeMutation.mutate(id)
Like(id) ==
    /\ kind = "ann"
    /\ HasId(merged, id)
    /\ Idle("like")
    /\ IF IsLocalId(kind, id) /\ ParseThrows(ledger[user])
          \* JSON.parse(stored) throws inside mutationFn; onError has no
          \* local-origin test: it adds a like, stores the list and reports
          THEN /\ \A i \in 1..Len(local) :
                     local[i].id = id => local[i].likes < MaxLikes
               /\ LET lo == BumpLike(local, id) IN Commit(items, lo, lo, run)
               /\ toast' = "error"
               /\ UNCHANGED << ledger, pending, refetch >>
          ELSE IF IsLocalId(kind, id)
          THEN LET r == LikeLocal(local, ledger[user], id) IN
               /\ ledger' = WriteLedger(user, r.voteMap)
               /\ Commit(items, r.local, r.local,
                         IF r.resolved THEN RunFor(user, id, "like") ELSE run)
               /\ pending' = IF r.resolved THEN pending
                             ELSE Send("like", Req(id, "stuck"))
               \* onSuccess has no local-origin test: it invalidates the query
               /\ refetch' = IF r.resolved THEN "local"
                             ELSE refetch
               /\ toast' = toast
          ELSE /\ CanSend("like")
               /\ \A i \in 1..Len(local) :
                     local[i].id = id => Total(local[i]) < MaxTally
               /\ pending' = Send("like", Req(id, NoVote))
               /\ run' = RunFor(user, id, "like")
               /\ UNCHANGED << ledger, items, local, store, merged, refetch,
                               boot, toast >>
    /\ UNCHANGED << kind, user, now, remote, srvSeq, mpc >>

\* apiService.announcements.like answers; likeMutation.onSuccess
LikeOk ==
    /\ ~Idle("like")
    /\ pending["like"].arg # "stuck"
    /\ HasId(remote, pending["like"].id)
    /\ \E likes \in 0..MaxSrvTally :
          /\ remote' = SetLikes(remote, pending["like"].id, likes)
          /\ LET lo == SetLikes(local, pending["like"].id, likes) IN
                Commit(items, lo, lo, NoRun)
    /\ pending' = Drop("like")
    /\ refetch' = "remote"
    /\ UNCHANGED << kind, user, now, srvSeq, ledger, mpc, toast >>

\* apiService.announcements.like fails; likeMutation.onError
LikeFail ==
    /\ ~Idle("like")
    /\ pending["like"].arg # "stuck"
    /\ LET lo == BumpLike(local, pending["like"].id) IN
          Commit(items, lo, lo, run)
    /\ pending' = Drop("like")
    /\ toast' = "error"
    /\ UNCHANGED << kind, user, now, remote, srvSeq, ledger, mpc, refetch >>

\* handleStatusUpdate(id, status) -> updateStatusMutation (feedback, admin):
\* 'resolved' is offered unless resolved, 'reviewed' while pending
UpdateStatus(id, status) ==
    /\ kind = "fb"
    /\ IsAdmin(user)
    /\ HasId(merged, id)
    /\ \/ status = "resolved" /\ Shown(id).status # "resolved"
       \/ status = "reviewed" /\ Shown(id).status = "pending"
    /\ Idle("status")
    /\ IF IsLocalId(kind, id)
          THEN LET lo == SetStatus(local, id, status) IN
               /\ Commit(items, lo, lo, run)
               /\ pending' = IF HasId(lo, id) THEN pending
                             ELSE Send("status", Req(id, "stuck"))
               \* onSuccess: invalidateQueries, toast.success
               /\ toast' = IF HasId(lo, id) THEN "success" ELSE toast
               /\ refetch' = IF HasId(lo, id) THEN "local"
                             ELSE refetch
          ELSE /\ CanSend("status")
               /\ pending' = Send("status", Req(id, status))
               /\ UNCHANGED << items, local, store, merged, toast, refetch,
                               run, boot >>
    /\ UNCHANGED << kind, user, now, remote, srvSeq, ledger, mpc >>

\* handleUpdate -> updateMutation (lost & found: the reporter; announcements:
\* the author, and with no local-origin test)
Update(id, status) ==
    /\ kind \in {"lf", "ann"}
    /\ HasId(merged, id)
    /\ Shown(id).owner = user
    /\ status = (IF kind = "lf" THEN "found" ELSE "urgent")
    /\ Idle("update")
    /\ IF kind = "lf" /\ IsLocalId(kind, id)
          THEN LET lo == SetStatus(local, id, status) IN
               /\ Commit(items, lo, lo, run)
               /\ pending' = IF HasId(lo, id) THEN pending
                             ELSE Send("update", Req(id, "stuck"))
               \* onSuccess: invalidateQueries, toast.success
               /\ toast' = IF HasId(lo, id) THEN "success" ELSE toast
               /\ refetch' = IF HasId(lo, id) THEN "local"
                             ELSE refetch
          ELSE /\ CanSend("update")
               /\ pending' = Send("update", Req(id, status))
               /\ UNCHANGED << items, local, store, merged, toast, refetch,
                               run, boot >>
    /\ UNCHANGED << kind, user, now, remote, srvSeq, ledger, mpc >>

\* handleMarkReturned(id) -> markReturnedMutation (lost & found, the reporter)
MarkReturned(id) ==
    /\ kind = "lf"
    /\ HasId(merged, id)
    /\ Shown(id).owner = user
    /\ Shown(id).status # "returned"
    /\ Idle("returned")
    /\ IF IsLocalId(kind, id)
          THEN LET lo == SetStatus(local, id, "returned") IN
               /\ Commit(items, lo, lo, run)
               /\ pending' = IF HasId(lo, id) THEN pending
                             ELSE Send("returned", Req(id, "stuck"))
               \* onSuccess: invalidateQueries, toast.success
               /\ toast' = IF HasId(lo, id) THEN "success" ELSE toast
               /\ refetch' = IF HasId(lo, id) THEN "local"
                             ELSE refetch
          ELSE /\ CanSend("returned")
               /\ pending' = Send("returned", Req(id, "returned"))
               /\ UNCHANGED << items, local, store, merged, toast, refetch,
                               run, boot >>
    /\ UNCHANGED << kind, user, now, remote, srvSeq, ledger, mpc >>

\* the update, status or mark-returned call answers: the server changes its
\* record; onSuccess only invalidates the query
ChangeOk(name) ==
    /\ name \in {"status", "update", "returned"}
    /\ ~Idle(name)
    /\ pending[name].arg # "stuck"
    /\ HasId(remote, pending[name].id)
    /\ remote' = SetStatus(remote, pending[name].id, pending[name].arg)
    /\ pending' = Drop(name)
    /\ toast' = "success"
    /\ refetch' = "remote"
    /\ UNCHANGED << kind, user, now, srvSeq, items, local, store, ledger,
                    merged, mpc, run, boot >>

\* a faulty onError that falls back to keeping a local copy of the record
CallFailKeepsCopy(name) ==
    /\ name \in {"status", "update", "returned", "delete"}
    /\ ~Idle(name)
    /\ pending[name].arg # "stuck"
    /\ pending' = Drop(name)
    /\ toast' = "error"
    /\ LET id == pending[name].id
           lo == IF HasId(merged, id) /\ ~HasId(local, id)
                    THEN << Shown(id) >> \o local
                    ELSE local
       IN  Commit(items, lo, lo, run)
    /\ UNCHANGED << kind, user, now, remote, srvSeq, ledger, mpc, refetch >>

\* a remote call other than create, vote and like fails: onError only
\* reports it
CallFail(name) ==
    /\ name \in {"status", "update", "returned", "delete"}
    /\ ~Idle(name)
    /\ pending[name].arg # "stuck"
    /\ pending' = Drop(name)
    /\ toast' = "error"
    /\ UNCHANGED << kind, user, now, remote, srvSeq, items, local, store,
                    ledger, merged, mpc, refetch, run, boot >>

\* handleDelete(id) -> deleteMutation (feedback: admin; lost & found: the
\* reporter; announcements: the author, and with no local-origin test)
Delete(id) ==
    /\ kind \in {"fb", "lf", "ann"}
    /\ HasId(merged, id)
    /\ IF kind = "fb" THEN IsAdmin(user) ELSE Shown(id).owner = user
    /\ Idle("delete")
    /\ IF kind \in {"fb", "lf"} /\ IsLocalId(kind, id)
          THEN LET lo == RemoveId(local, id) IN
               /\ Commit(items, lo, lo,
                         IF run.id = id THEN NoRun ELSE run)
               /\ pending' = pending
               \* onSuccess: invalidateQueries, toast.success
               /\ toast' = "success"
               /\ refetch' = "local"
          ELSE /\ CanSend("delete")
               /\ pending' = Send("delete", Req(id, NoVote))
               /\ UNCHANGED << items, local, store, merged, toast, refetch,
                               run, boot >>
    /\ UNCHANGED << kind, user, now, remote, srvSeq, ledger, mpc >>

\* apiService.*.delete answers: the server drops the record; onSuccess only
\* invalidates the query
DeleteOk ==
    /\ ~Idle("delete")
    /\ HasId(remote, pending["delete"].id)
    /\ remote' = RemoveId(remote, pending["delete"].id)
    /\ pending' = Drop("delete")
    /\ toast' = "success"
    /\ refetch' = "remote"
    /\ UNCHANGED << kind, user, now, srvSeq, items, local, store, ledger,
                    merged, mpc, run, boot >>

StatusValues == {"reviewed", "resolved", "found", "urgent"}

VoteTypes == {"up", "down"}

Next ==
    \/ Tick
    \/ \E u \in Users : Remount(u)
    \/ FetchOk
    \/ FetchFail
    \/ FilterChange
    \/ CreateDispatch
    \/ CreateOk
    \/ CreateFail
    \/ \E id \in Ids(merged), voteType \in VoteTypes : Vote(id, voteType)
    \/ VoteOk
    \/ VoteFail
    \/ \E id \in Ids(merged) : Like(id)
    \/ LikeOk
    \/ LikeFail
    \/ \E id \in Ids(merged), status \in StatusValues : UpdateStatus(id, status)
    \/ \E id \in Ids(merged), status \in StatusValues : Update(id, status)
    \/ \E id \in Ids(merged) : MarkReturned(id)
    \/ \E name \in {"status", "update", "returned"} : ChangeOk(name)
    \/ \E name \in {"status", "update", "returned", "delete"} : CallFail(name)
    \/ \E id \in Ids(merged) : Delete(id)
    \/ DeleteOk

Spec == Init /\ [][Next]_vars

----------------------------------------------------------------------------
(* Sub-specifications: the same actions, a part of the pages and of the     *)
(* environment each, so that the state graphs stay within reach of          *)
(* exhaustive search                                                        *)

\* SpecVote: two users take turns on the confessions, feedback and
\* announcements pages while the remote source holds nothing; every vote and
\* like takes the local path, and the history of runs is recorded
InitVote ==
    Init /\ kind \in {"conf", "fb", "ann"} /\ user = "u1" /\ remote = << >>
         /\ run = NoRun /\ boot = BootOff

NextVote ==
    \/ \E u \in Users : Remount(u)
    \/ \E id \in Ids(merged), voteType \in VoteTypes : Vote(id, voteType)
    \/ \E id \in Ids(merged) : Like(id)
    \/ \E id \in Ids(merged) : Delete(id)

SpecVote == InitVote /\ [][NextVote]_vars

\* SpecTally: one user creates, votes, likes and deletes, locally and through
\* the remote source, which answers or fails; no history
InitTally ==
    Init /\ kind \in {"conf", "fb", "ann"} /\ user = "u1" /\ remote = << >>
         /\ run = RunOff /\ boot = BootOff

NextTally ==
    \/ Remount(user)
    \/ CreateDispatch
    \/ CreateOk
    \/ CreateFail
    \/ \E id \in Ids(merged), voteType \in VoteTypes : Vote(id, voteType)
    \/ VoteOk
    \/ VoteFail
    \/ \E id \in Ids(merged) : Like(id)
    \/ LikeOk
    \/ LikeFail
    \/ \E id \in Ids(merged) : Delete(id)
    \/ DeleteOk
    \/ CallFail("delete")

SpecTally == InitTally /\ [][NextTally]_vars

\* SpecRun: one user creates, votes and likes, locally and through the remote
\* source, with the history of runs recorded
NextRun ==
    \/ CreateDispatch
    \/ CreateOk
    \/ CreateFail
    \/ \E id \in Ids(merged), voteType \in VoteTypes : Vote(id, voteType)
    \/ VoteOk
    \/ VoteFail
    \/ \E id \in Ids(merged) : Like(id)
    \/ LikeOk
    \/ LikeFail

SpecRun == InitVote /\ [][NextRun]_vars

\* SpecCrud: one user on any of the four pages creates, edits, changes
\* status and deletes, the remote source answering or failing; no votes, no
\* history
InitCrud == Init /\ user = "u1" /\ run = RunOff /\ boot = BootOff

NextCrud ==
    \/ FetchOk
    \/ FetchFail
    \/ CreateDispatch
    \/ CreateOk
    \/ CreateFail
    \/ \E id \in Ids(merged), status \in StatusValues : UpdateStatus(id, status)
    \/ \E id \in Ids(merged), status \in StatusValues : Update(id, status)
    \/ \E id \in Ids(merged) : MarkReturned(id)
    \/ \E name \in {"status", "update", "returned"} : ChangeOk(name)
    \/ \E name \in {"status", "update", "returned", "delete"} : CallFail(name)
    \/ \E id \in Ids(merged) : Delete(id)
    \/ DeleteOk

SpecCrud == InitCrud /\ [][NextCrud]_vars

----------------------------------------------------------------------------
(* Claims about votes and likes. The history `run` holds what the last two  *)
(* operations of the current run found; the state holds what they left.     *)

\* the current run is one of local votes or likes by the user of the page
RunActs ==
    /\ run.user = user
    /\ run.ops # << >>
    /\ IsLocalId(kind, run.id)
    /\ HasId(local, run.id)

\* what the last operation of the run found
LastOp == run.ops[Len(run.ops)]

\* the record of the run as it is now
RunRec == FirstWithId(local, run.id)

\* the user's ledger entry for the record of the run as it is now
StoredNow == MapGet(ledger[user], run.id)

OtherDir(d) == IF d = "up" THEN "down" ELSE "up"

Found(e, d) == IF d = "up" THEN e.up ELSE e.down

Count(rec, d) == IF d = "up" THEN rec.upvotes ELSE rec.downvotes

\* n - 1, but not below zero
Floor1(n) == IF n >= 1 THEN n - 1 ELSE 0

\* C4 as stated: a vote in the stored direction removes the stored vote and
\* decrements that direction's count; any other vote decrements the stored
\* direction's count (if a vote is stored), increments the requested
\* direction's count and stores the requested direction.
C4_AsStated ==
    (RunActs /\ LastOp.dir \in VoteTypes) =>
        LET e == LastOp
            d == LastOp.dir
        IN IF e.vote = d
               THEN /\ StoredNow = NoVote
                    /\ Count(RunRec, d) = Found(e, d) - 1
               ELSE /\ StoredNow = d
                    /\ Count(RunRec, d) = Found(e, d) + 1
                    /\ Count(RunRec, OtherDir(d)) =
                          IF e.vote = NoVote THEN Found(e, OtherDir(d))
                                             ELSE Found(e, OtherDir(d)) - 1

\* C4 with the floor of the code: the same, except that a count is
\* decremented only as far as zero. This is what a vote does in every
\* reachable state.
C4_TwoStateVote ==
    (RunActs /\ LastOp.dir \in VoteTypes) =>
        LET e == LastOp
            d == LastOp.dir
        IN IF e.vote = d
               THEN /\ StoredNow = NoVote
                    /\ Count(RunRec, d) = Floor1(Found(e, d))
               ELSE /\ StoredNow = d
                    /\ Count(RunRec, d) = Found(e, d) + 1
                    /\ Count(RunRec, OtherDir(d)) =
                          IF e.vote = NoVote THEN Found(e, OtherDir(d))
                                             ELSE Floor1(Found(e, OtherDir(d)))

\* a retraction that found its count at zero: the ledger of the user kept a
\* vote on a record that was deleted and written again by the bootstrap
C4_Witness ==
    /\ RunActs
    /\ LastOp.dir = "down"
    /\ LastOp.vote = "down"
    /\ LastOp.down = 0
    /\ RunRec.downvotes = 0
    /\ StoredNow = NoVote

\* the last two operations of the run are votes in the same direction
SameTwice ==
    /\ RunActs
    /\ Len(run.ops) = 2
    /\ run.ops[1].dir \in VoteTypes
    /\ run.ops[2].dir = run.ops[1].dir

\* C5 as stated: in every reachable state, two votes in the same direction in
\* succession leave upvotes and downvotes as the first of them found them.
C5_AsStated ==
    SameTwice =>
        /\ RunRec.upvotes = run.ops[1].up
        /\ RunRec.downvotes = run.ops[1].down

\* C5 amended: two votes in the same direction in succession on a local-origin
\* record leave upvotes and downvotes as the first found them, whenever the
\* user's stored vote before the first was absent, or was that direction with
\* that direction's count at least one.
C5_SameVoteTwice ==
    (/\ SameTwice
     /\ \/ run.ops[1].vote = NoVote
        \/ /\ run.ops[1].vote = run.ops[1].dir
           /\ Found(run.ops[1], run.ops[1].dir) >= 1) =>
        /\ RunRec.upvotes = run.ops[1].up
        /\ RunRec.downvotes = run.ops[1].down

\* a vote and its retraction, by the second user, from no stored vote
C5_Witness ==
    /\ SameTwice
    /\ user = "u2"
    /\ run.ops[1].vote = NoVote
    /\ run.ops[2].vote = run.ops[1].dir
    /\ StoredNow = NoVote

\* the last two operations of the run are a vote up and then a vote down
UpThenDown ==
    /\ RunActs
    /\ Len(run.ops) = 2
    /\ run.ops[1].dir = "up"
    /\ run.ops[2].dir = "down"

\* C6 as stated: after a vote up and then a vote down one vote of the user is
\* counted: upvotes is what the first vote found, downvotes one more than it
\* found.
C6_AsStated ==
    UpThenDown =>
        /\ RunRec.upvotes = run.ops[1].up
        /\ RunRec.downvotes = run.ops[1].down + 1
        /\ StoredNow = "down"

\* C6 amended: the same for a local-origin record on which the user had no
\* stored vote before the vote up.
C6_UpThenDown ==
    (UpThenDown /\ run.ops[1].vote = NoVote) =>
        /\ RunRec.upvotes = run.ops[1].up
        /\ RunRec.downvotes = run.ops[1].down + 1
        /\ StoredNow = "down"

\* up then down from no stored vote, the vote up found stored by the vote down
C6_Witness ==
    /\ UpThenDown
    /\ run.ops[1].vote = NoVote
    /\ run.ops[2].vote = "up"
    /\ run.ops[2].up = run.ops[1].up + 1

\* C7: no record of the local list has a negative count, whatever local votes
\* and likes, server tallies and failed remote votes came before.
C7_NonNegative ==
    \A i \in 1..Len(local) :
        /\ local[i].upvotes >= 0
        /\ local[i].downvotes >= 0
        /\ local[i].likes >= 0

\* the ledger holds a down vote on a record whose downvotes is zero, beside a
\* local copy of a remote-tracked record counted up by a failed vote
C7_Witness ==
    /\ \E i \in 1..Len(local) :
          /\ MapGet(ledger[user], local[i].id) = "down"
          /\ local[i].downvotes = 0
    /\ \E i \in 1..Len(local) :
          /\ ~IsLocalId(kind, local[i].id)
          /\ local[i].upvotes + local[i].downvotes > 0

\* C8 as stated: while no server tally is applied, the total of the record of
\* a run is at most one above what the first operation of the run found.
C8_AsStated ==
    (run.user = user /\ HasId(local, run.id)) =>
        Total(RunRec) <= run.base + 1

\* C9: a like on a local-origin announcement adds one and sets the entry if
\* the entry was absent, else takes one off (not below zero) and removes the
\* entry; two likes in succession restore likes and the entry whenever likes
\* was at least one or the entry was absent.
C9_LikeFlip ==
    (RunActs /\ LastOp.dir = "like") =>
        /\ IF LastOp.vote = NoVote
               THEN RunRec.likes = LastOp.likes + 1 /\ StoredNow = "liked"
               ELSE RunRec.likes = Floor1(LastOp.likes) /\ StoredNow = NoVote
        /\ (Len(run.ops) = 2 /\ (run.ops[1].likes >= 1 \/ run.ops[1].vote = NoVote)) =>
               /\ RunRec.likes = run.ops[1].likes
               /\ StoredNow = run.ops[1].vote

\* an unlike followed by a like, by the second user
C9_Witness ==
    /\ RunActs
    /\ user = "u2"
    /\ Len(run.ops) = 2
    /\ run.ops[1].dir = "like" /\ run.ops[2].dir = "like"
    /\ run.ops[1].vote = "liked"
    /\ StoredNow = "liked"
    /\ RunRec.likes = run.ops[1].likes

----------------------------------------------------------------------------
(* Claims about the requests sent to the remote source *)

\* C10 as stated: no update, status, mark-returned, vote, like or delete
\* request in flight to the remote source carries a local-origin id.
C10_AsStated ==
    \A name \in DOMAIN pending \ {"create"} :
        pending[name].arg # "stuck" => ~IsLocalId(kind, pending[name].id)

----------------------------------------------------------------------------
(* Claims about what a mutation sends, stores and shows *)

\* the step is a vote or like on a local-origin record shown on the page
LocalVoteStep ==
    \E id \in Ids(merged) :
        /\ IsLocalId(kind, id)
        /\ \/ \E voteType \in VoteTypes : Vote(id, voteType)
           \/ Like(id)

\* C11 as stated: a vote or like on a local-origin record sends no request to
\* the remote source and starts no refetch of the record list.
C11_AsStated ==
    [][LocalVoteStep => (pending' = pending /\ refetch' = refetch)]_vars

\* the record r is new in the local list, of local origin, stamped with the
\* current time and with zero tallies
NewLocalRecord(r) ==
    /\ r.id \notin Ids(local)
    /\ IsLocalId(kind, r.id)
    /\ r.timestamp = now
    /\ r.upvotes = 0 /\ r.downvotes = 0 /\ r.likes = 0

\* C12 as stated: on every page, when the create call fails a new local-origin
\* record with the current time and zero tallies is in the local list, the
\* persisted store and the merged collection, and success is reported.
C12_AsStated ==
    [][CreateFail =>
          /\ \E r \in Range(local') :
                /\ NewLocalRecord(r)
                /\ r \in Range(store')
                /\ r \in Range(merged')
          /\ toast' = "success"]_vars

\* C13 as stated: on every page, when the create call succeeds the record the
\* server returned is at the head of the local list, in the persisted store
\* and in the merged collection.
C13_AsStated ==
    [][CreateOk =>
          /\ local' # << >>
          /\ Head(local').id = MkId("srv", kind, srvSeq + 1)
          /\ Head(local') \in Range(remote')
          /\ Head(local') \in Range(store')
          /\ Head(local') \in Range(merged')]_vars

\* C14 as stated: once the remote delete of a remote-tracked record has
\* succeeded and the following fetch returns a list without it, the merged
\* collection has no record with that id, whether or not a local copy existed.
C14_AsStated ==
    [][FetchOk =>
          \A id \in Ids(merged) :
              (~IsLocalId(kind, id) /\ id \notin Ids(remote))
                  => id \notin Ids(merged')]_vars

\* SpecCall: the remote-tracked calls of the pages together with votes and
\* likes on local-origin records, which fill the ledgers; the user is the
\* admin u1 or u2, who owns the record of the remote source
InitCall ==
    Init /\ kind # "conf" /\ remote = << SeedRemote(kind) >>
         /\ run = RunOff /\ boot = BootOff

NextCall ==
    \/ FetchOk
    \/ FetchFail
    \/ LocalVoteStep
    \/ \E id \in Ids(merged), status \in StatusValues : UpdateStatus(id, status)
    \/ \E id \in Ids(merged), status \in StatusValues : Update(id, status)
    \/ \E id \in Ids(merged) : MarkReturned(id)
    \/ \E id \in Ids(merged) : Delete(id)
    \/ \E name \in {"status", "update", "returned"} : ChangeOk(name)
    \/ DeleteOk
    \/ \E name \in {"status", "update", "returned", "delete"} : CallFail(name)

SpecCall == InitCall /\ [][NextCall]_vars

RemoteNames == {"status", "update", "returned", "delete"}

\* a call about a remote-tracked record is sent
RemoteCallSent ==
    \E name \in RemoteNames :
        /\ name \notin DOMAIN pending
        /\ name \in DOMAIN pending'
        /\ ~IsLocalId(kind, pending'[name].id)

\* a call about a remote-tracked record fails
RemoteCallFails ==
    \E name \in RemoteNames :
        /\ CallFail(name)
        /\ ~IsLocalId(kind, pending[name].id)

\* C15: when the update, status change, mark-returned or delete of a
\* remote-tracked record is sent and fails, an error is shown and the local
\* list, the persisted store and every ledger are as they were.
C15_FailedCallKeepsState ==
    [][(RemoteCallSent \/ RemoteCallFails) =>
          /\ local' = local
          /\ store' = store
          /\ ledger' = ledger
          /\ RemoteCallFails => toast' = "error"]_vars

\* an error is on screen after a call failed, with a non-empty ledger, a
\* remote-tracked record shown and local records kept
C15_Witness ==
    /\ toast = "error"
    /\ pending = << >>
    /\ ledger[user] # << >>
    /\ local # << >>
    /\ \E id \in Ids(merged) : ~IsLocalId(kind, id)

\* C16 as stated: after a vote on a remote-tracked record succeeded, the
\* user's ledger entry for that record is the direction that was asked for.
C16_AsStated ==
    [][VoteOk =>
          MapGet(ledger'[user], pending["vote"].id) = pending["vote"].arg]_vars

\* SpecFetch: one user votes on and likes the records of a page whose remote
\* source holds one record, which the query fetches
InitFetch ==
    Init /\ kind \in {"conf", "fb", "ann"} /\ user = "u1"
         /\ remote = << SeedRemote(kind) >> /\ run = RunOff /\ boot = BootOff

NextFetch ==
    \/ FetchOk
    \/ FetchFail
    \/ \E id \in Ids(merged), voteType \in VoteTypes : Vote(id, voteType)
    \/ VoteOk
    \/ VoteFail
    \/ \E id \in Ids(merged) : Like(id)
    \/ LikeOk
    \/ LikeFail

SpecFetch == InitFetch /\ [][NextFetch]_vars

\* the count of direction d of the record id, as the page shows it
ShownCount(all, id, d) ==
    IF d = "like" THEN FirstWithId(all, id).likes
    ELSE Count(FirstWithId(all, id), d)

\* the vote or like of a remote-tracked record fails
RemoteVoteFails ==
    \/ VoteFail /\ ~IsLocalId(kind, pending["vote"].id)
    \/ LikeFail /\ ~IsLocalId(kind, pending["like"].id)

\* C17 as stated: after the vote or like of a remote-tracked record failed,
\* the count of the requested direction of that record in the merged
\* collection is one higher than before, and a degraded notice is shown.
C17_AsStated ==
    [][RemoteVoteFails =>
          LET name == IF kind = "ann" THEN "like" ELSE "vote"
              id == pending[name].id
              d == IF kind = "ann" THEN "like" ELSE pending[name].arg
          IN  /\ HasId(merged', id)
              /\ ShownCount(merged', id, d) = ShownCount(merged, id, d) + 1
              /\ toast' = "error"]_vars

\* the vote or like of a remote-tracked record is answered or fails
RemoteVoteSettles ==
    \/ (VoteOk \/ VoteFail) /\ ~IsLocalId(kind, pending["vote"].id)
    \/ (LikeOk \/ LikeFail) /\ ~IsLocalId(kind, pending["like"].id)

\* C18 as stated: a vote or like on a remote-tracked record, answered or
\* failed, changes in-memory state only: the persisted store and the ledgers
\* stay as they were.
C18_AsStated ==
    [][RemoteVoteSettles => (store' = store /\ ledger' = ledger)]_vars

\* what an earlier release left in demo_confessions: a sample record whose
\* title is one of LEGACY_CONFESSION_TITLES
LegacyStore ==
    << MkRec(MkId("demo", "conf", 3), StartNow - 6, 1, 0, 0, "pending",
             "none", "Feeling Homesick") >>

\* SpecBoot: the admin opens a page whose store is empty (confessions: or
\* holds a legacy sample), the bootstrap effect runs on mount, and the admin
\* then creates and deletes records, changes filters and reopens the page;
\* the writes of the bootstrap are recorded
InitBoot ==
    /\ kind \in Kinds
    /\ user = "u1"
    /\ now = StartNow
    /\ remote \in {<< >>, << SeedRemote(kind) >>}
    /\ srvSeq = 0
    /\ items = << >>
    /\ \E st0 \in {<< >>} \cup (IF kind = "conf" THEN {LegacyStore} ELSE {}) :
          LET r == Settle(kind, -1, << >>, st0, st0, StartNow) IN
          /\ local = r.local
          /\ store = r.store
          /\ merged = AllRecords(<< >>, r.local)
          /\ boot = [writes |-> IF r.seeded THEN 1 ELSE 0,
                     saw |-> AllRecords(<< >>, st0)]
    /\ ledger = [u \in Users |-> << >>]
    /\ pending = << >>
    /\ mpc = "done"
    /\ toast = NoToast
    /\ refetch = NoFetch
    /\ run = RunOff

NextBoot ==
    \/ Remount(user)
    \/ FetchOk
    \/ FetchFail
    \/ FilterChange
    \/ CreateDispatch
    \/ CreateOk
    \/ CreateFail
    \/ \E id \in Ids(merged) : Delete(id)
    \/ DeleteOk
    \/ CallFail("delete")

SpecBoot == InitBoot /\ [][NextBoot]_vars

\* C19 as stated: the bootstrap writes the sample set at most once; once the
\* merged collection has been non-empty, no deleting of records, change of a
\* filter or failing or empty fetch makes it write the set again.
C19_AsStated == boot.writes <= 1

\* C20: whenever the bootstrap writes the sample set, the merged collection
\* it found holds no record that passes the exclusion filter: on the
\* confessions page only records with a legacy title, on the other pages no
\* record at all.
C20_WritesOnlyWhenExcluded ==
    boot.writes >= 1 =>
        IF kind = "conf"
            THEN \A rec \in Range(boot.saw) : rec.title \in LegacyTitles
            ELSE boot.saw = << >>

\* the bootstrap has written again, after the records shown were all gone
C20_Witness ==
    /\ boot.writes = 2
    /\ boot.saw = << >>
    /\ local = DummyRecords(kind, now)
    /\ store = local

----------------------------------------------------------------------------
(* Claims about ids, users, the store's contents and interleavings *)

\* SpecIds: the admin creates up to MaxCreatesIds records, the creates
\* succeeding or failing, deletes records and reopens the page; the clock
\* may or may not advance between two handlers
InitIds == InitCrud

NextIds ==
    \/ Tick
    \/ Remount(user)
    \/ CreateDispatchUpTo(MaxCreatesIds)
    \/ CreateOk
    \/ CreateFail
    \/ \E id \in Ids(merged) : Delete(id)
    \/ DeleteOk

SpecIds == InitIds /\ [][NextIds]_vars

\* C21 as stated: the local list never holds two records with the same id;
\* every locally made record gets an id no record of the list has.
C21_AsStated == DistinctIds(local)

\* a vote or like is made (SpecVote: on a local-origin record)
VoteStep ==
    \E id \in Ids(merged) :
        \/ \E voteType \in VoteTypes : Vote(id, voteType)
        \/ Like(id)

\* C22: a vote or like made while one user is the current user leaves the
\* ledger of every other user as it was, and so the vote or like reported
\* for another user on any record, whatever the users switched and voted
\* before.
C22_OtherLedgersKept ==
    [][VoteStep =>
          \A b \in Users \ {user} :
              /\ ledger'[b] = ledger[b]
              /\ \A id \in Ids(merged) \cup Ids(merged') :
                    UserVoteFor(b, id)' = UserVoteFor(b, id)]_vars

\* both users have voted, the second after the first, and their ledgers differ
C22_Witness ==
    /\ user = "u2"
    /\ ledger["u1"] # << >>
    /\ ledger["u2"] # << >>
    /\ ledger["u1"] # ledger["u2"]

\* SpecParse: the page is open and the key of the current user's ledger is
\* missing or holds a value that is not JSON; the user votes and likes
InitParse ==
    /\ kind \in {"conf", "fb", "ann"}
    /\ user \in Users
    /\ now = StartNow
    /\ remote = << >>
    /\ srvSeq = 0
    /\ items = << >>
    /\ local = DummyRecords(kind, StartNow)
    /\ store = DummyRecords(kind, StartNow)
    /\ ledger \in [Users -> {<< >>, MalformedMap}]
    /\ pending = << >>
    /\ merged = AllRecords(<< >>, DummyRecords(kind, StartNow))
    /\ mpc = "done"
    /\ toast = NoToast
    /\ refetch = NoFetch
    /\ run = RunOff
    /\ boot = BootOff

NextParse ==
    \/ \E u \in Users : Remount(u)
    \/ \E id \in Ids(merged), voteType \in VoteTypes : Vote(id, voteType)
    \/ \E id \in Ids(merged) : Like(id)

SpecParse == InitParse /\ [][NextParse]_vars

\* C23 as stated: a local vote or like that finds a malformed value under the
\* ledger key completes as it does with an empty ledger, and no error is
\* raised; the display reads a malformed ledger as empty.
C23_AsStated ==
    [][\A id \in Ids(merged) :
          /\ ParseThrows(ledger[user]) => UserVoteFor(user, id) = NoVote
          /\ \A voteType \in VoteTypes :
                (Vote(id, voteType) /\ ParseThrows(ledger[user])) =>
                    LET r == VoteLocal(local, << >>, id, voteType) IN
                    /\ local' = r.local
                    /\ ledger' = [ledger EXCEPT ![user] = r.voteMap]
                    /\ toast' # "error"
          /\ (Like(id) /\ ParseThrows(ledger[user])) =>
                LET r == LikeLocal(local, << >>, id) IN
                /\ local' = r.local
                /\ ledger' = [ledger EXCEPT ![user] = r.voteMap]
                /\ toast' # "error"]_vars

\* SpecRace: the steps of the local mutations taken apart.  mutationFn reads
\* the ledger and hands setLocalFeedback an updater (the dispatch); React runs
\* the queued updaters in order at the next render (the apply), and the
\* updater writes the ledger and the store and resolves the promise.  Clicks
\* that arrive before the render dispatch further mutations, the buttons not
\* yet being disabled.
\* the mutations whose updater has not run yet
Queued == {n \in DOMAIN pending : pending[n].seq > 0}

\* a dispatched local mutation: the id, the argument, the ledger as mutationFn
\* read it, the place in React's update queue, and the ids of the votes that
\* were queued when it was dispatched
Enqueue(name, id, arg) ==
    [n \in DOMAIN pending \cup {name} |->
        IF n = name
            THEN [id |-> id, arg |-> arg, voteMap |-> ledger[user],
                  seq |-> Cardinality(Queued) + 1,
                  over |-> {pending[m].id : m \in Queued \ {"delete"}}]
            ELSE pending[n]]

\* the queue after the updater of `name` has run; a promise that was not
\* resolved stays pending for good (seq 0)
Dequeue(name, resolved) ==
    [n \in (IF resolved THEN DOMAIN pending \ {name} ELSE DOMAIN pending) |->
        IF n = name THEN [pending[n] EXCEPT !.seq = 0]
        ELSE IF pending[n].seq > 0
                THEN [pending[n] EXCEPT !.seq = pending[n].seq - 1]
                ELSE pending[n]]

\* |n|
Abs(n) == IF n < 0 THEN 0 - n ELSE n

\* how far a tally of the local record of an id is from the sample's
Drift(id) ==
    LET base == DummyRecords(kind, StartNow)
        b == IF HasId(base, id) THEN FirstWithId(base, id)
             ELSE MkRec(id, 0, 0, 0, 0, "none", "none", "none")
        r == IF HasId(local, id) THEN FirstWithId(local, id) ELSE b
    IN  IF Abs(r.upvotes - b.upvotes) >= Abs(r.downvotes - b.downvotes)
            THEN Abs(r.upvotes - b.upvotes) + Abs(r.likes - b.likes)
            ELSE Abs(r.downvotes - b.downvotes) + Abs(r.likes - b.likes)

\* the slot of a further mutate() of the same mutation before the render
Slot(first, second, id) ==
    IF Drift(id) > MaxDrift THEN "none"
    ELSE IF Idle(first) THEN first
    ELSE IF first \in Queued /\ Idle(second) THEN second
    ELSE "none"

InitRace == InitVote

\* handleVote(id, voteType): mutationFn up to setLocalFeedback(updater)
RaceVote(id, voteType) ==
    /\ kind \in {"conf", "fb"}
    /\ HasId(merged, id)
    /\ IsLocalId(kind, id)
    /\ ~ParseThrows(ledger[user])
    /\ Slot("vote", "vote2", id) # "none"
    /\ pending' = Enqueue(Slot("vote", "vote2", id), id, voteType)
    /\ UNCHANGED << kind, user, now, remote, srvSeq, items, local, store,
                    ledger, merged, mpc, toast, refetch, run, boot >>

\* likeMutation.mutate(id): mutationFn up to setLocalAnnouncements(updater)
RaceLike(id) ==
    /\ kind = "ann"
    /\ HasId(merged, id)
    /\ IsLocalId(kind, id)
    /\ ~ParseThrows(ledger[user])
    /\ Slot("like", "like2", id) # "none"
    /\ pending' = Enqueue(Slot("like", "like2", id), id, "like")
    /\ UNCHANGED << kind, user, now, remote, srvSeq, items, local, store,
                    ledger, merged, mpc, toast, refetch, run, boot >>

\* handleDelete(id) of the feedback admin: mutationFn up to
\* setLocalFeedback(updater)
RaceDelete(id) ==
    /\ kind = "fb"
    /\ IsAdmin(user)
    /\ HasId(merged, id)
    /\ IsLocalId(kind, id)
    /\ Idle("delete")
    /\ pending' = Enqueue("delete", id, NoVote)
    /\ UNCHANGED << kind, user, now, remote, srvSeq, items, local, store,
                    ledger, merged, mpc, toast, refetch, run, boot >>

\* the updater at the head of the queue
HeadName == CHOOSE n \in Queued : pending[n].seq = 1

\* React runs the first queued updater
RaceApply ==
    /\ Queued # {}
    /\ LET n == HeadName
           e == pending[n]
       IN  CASE n \in {"vote", "vote2"} ->
                  LET r == VoteLocal(local, e.voteMap, e.id, e.arg) IN
                  /\ ledger' = IF r.resolved THEN WriteLedger(user, r.voteMap)
                               ELSE ledger
                  /\ Commit(items, r.local, r.local, run)
                  /\ pending' = Dequeue(n, r.resolved)
                  /\ UNCHANGED << toast, refetch >>
             [] n \in {"like", "like2"} ->
                  LET r == LikeLocal(local, e.voteMap, e.id) IN
                  /\ ledger' = IF r.resolved THEN WriteLedger(user, r.voteMap)
                               ELSE ledger
                  /\ Commit(items, r.local, r.local, run)
                  /\ pending' = Dequeue(n, r.resolved)
                  /\ refetch' = IF r.resolved THEN "local" ELSE refetch
                  /\ toast' = toast
             [] OTHER ->
                  LET lo == RemoveId(local, e.id) IN
                  /\ Commit(items, lo, lo, run)
                  /\ pending' = Dequeue(n, TRUE)
                  /\ toast' = "success"
                  /\ refetch' = "local"
                  /\ ledger' = ledger
    /\ UNCHANGED << kind, user, now, remote, srvSeq, mpc >>

\* the record the clicks of SpecRace are on
RaceIds == {MkId("demo", kind, 1)}

NextRace ==
    \/ \E id \in RaceIds, voteType \in VoteTypes : RaceVote(id, voteType)
    \/ \E id \in RaceIds : RaceLike(id)
    \/ \E id \in RaceIds : RaceDelete(id)
    \/ RaceApply

SpecRace == InitRace /\ [][NextRace]_vars

\* RaceApply as the queue sees it: the first updater leaves the queue,
\* resolved or not
RaceApplied ==
    /\ Queued # {}
    /\ pending' \in {Dequeue(HeadName, TRUE), Dequeue(HeadName, FALSE)}

\* React renders in the end, so every queued updater is run
SpecRaceFair == SpecRace /\ WF_pending(RaceApplied)

\* C24 as stated: every dispatched mutation settles in the end and leaves the
\* pending state; in particular a vote on a local-origin id does, whether or
\* not the local list holds a record of that id when its updater runs.
C24_AsStated == ("vote" \in DOMAIN pending) ~> ("vote" \notin DOMAIN pending)

\* the updater at the head of the queue is a vote or like that was dispatched
\* while another vote or like on the same record was queued
SecondOfTwo ==
    /\ Queued # {}
    /\ HeadName # "delete"
    /\ pending[HeadName].id \in pending[HeadName].over
    /\ HasId(local, pending[HeadName].id)

\* C25 as stated: two local votes of a user on a local-origin record, the
\* second dispatched before the updater of the first has run, leave the tally
\* and the ledger entry that the two leave when run one after the other: the
\* second acts on the ledger as the first left it.
C25_AsStated ==
    [][(RaceApply /\ SecondOfTwo) =>
          LET e == pending[HeadName]
              r == IF kind = "ann" THEN LikeLocal(local, ledger[user], e.id)
                   ELSE VoteLocal(local, ledger[user], e.id, e.arg)
          IN  /\ local' = r.local
              /\ ledger'[user] = r.voteMap]_vars

\* SpecLate: two remote votes (likes) on a record may be in flight at a time.
\* The server handles the calls in the order of dispatch and answers each
\* with the tallies it then holds; the answers arrive in either order.
InitLate ==
    Init /\ kind \in {"fb", "ann"} /\ user = "u1" /\ remote = << >>
         /\ run = RunOff /\ boot = BootOff

\* the calls of voteMutation (likeMutation) in flight
LateNames == {"vote", "vote2"}

\* the slot of a call: a second mutate() may come before the first answer
LateSlot ==
    IF Idle("vote") THEN "vote" ELSE IF Idle("vote2") THEN "vote2" ELSE "none"

\* handleVote / likeMutation.mutate on a remote-tracked record; the server
\* takes the call and computes its answer
LateVote(id, voteType) ==
    /\ kind \in {"fb", "ann"}
    /\ voteType = "like" <=> kind = "ann"
    /\ HasId(merged, id)
    /\ ~IsLocalId(kind, id)
    /\ HasId(remote, id)
    /\ LateSlot # "none"
    /\ \E up, down \in 0..MaxSrvTally :
          /\ kind = "ann" => down = 0
          /\ remote' = IF kind = "ann" THEN SetLikes(remote, id, up)
                       ELSE SetTallies(remote, id, up, down)
          /\ pending' = Send(LateSlot,
                             [id |-> id, arg |-> voteType, up |-> up,
                              down |-> down,
                              seq |-> Cardinality(DOMAIN pending) + 1,
                              late |-> FALSE])
    /\ UNCHANGED << kind, user, now, srvSeq, items, local, store, ledger,
                    merged, mpc, toast, refetch, run, boot >>

\* the calls left in flight when the answer of n has arrived: a call that was
\* dispatched before n is now late
LateDrop(n) ==
    [m \in DOMAIN pending \ {n} |->
        [pending[m] EXCEPT !.seq = 1,
                           !.late = pending[m].seq < pending[n].seq]]

\* an answer arrives: voteMutation.onSuccess, likeMutation.onSuccess
LateOk(n) ==
    /\ n \in LateNames
    /\ ~Idle(n)
    /\ LET e == pending[n]
           lo == IF kind = "ann" THEN SetLikes(local, e.id, e.up)
                 ELSE SetTallies(local, e.id, e.up, e.down)
       IN  Commit(items, lo, lo, run)
    /\ pending' = LateDrop(n)
    /\ refetch' = "remote"
    /\ UNCHANGED << kind, user, now, remote, srvSeq, ledger, mpc, toast >>

NextLate ==
    \/ CreateDispatch
    \/ CreateOk
    \/ CreateFail
    \/ FetchOk
    \/ \E id \in Ids(merged), voteType \in VoteTypes \cup {"like"} :
          LateVote(id, voteType)
    \/ \E n \in LateNames : LateOk(n)

SpecLate == InitLate /\ [][NextLate]_vars

\* C26 as stated: when the answers to two remote votes on a record arrive in
\* the reverse of the order of dispatch, the tally stored for the record
\* after both callbacks is the one the later vote was answered with: the late
\* answer of the earlier vote does not overwrite it.
C26_AsStated ==
    [][\A n \in LateNames :
          (LateOk(n) /\ pending[n].late) =>
              \A i \in 1..Len(local) :
                  local[i].id = pending[n].id =>
                      /\ HasId(local', local[i].id)
                      /\ Total(FirstWithId(local', local[i].id)) = Total(local[i])
                      /\ FirstWithId(local', local[i].id).upvotes
                             = local[i].upvotes]_vars

\* the id of the record a completion callback is about
CallbackId(name) ==
    IF name = "create" THEN NoId ELSE pending[name].id

\* a completion callback runs: onSuccess or onError of a remote call
Callback(name) ==
    CASE name = "create" -> CreateOk \/ CreateFail
      [] name = "vote" -> VoteOk \/ VoteFail
      [] name = "like" -> LikeOk \/ LikeFail
      [] OTHER -> DeleteOk \/ CallFail("delete")

LocalChangeStep ==
    /\ kind \in {"fb", "lf"}
    /\ \E id \in Ids(merged) :
          /\ IsLocalId(kind, id)
          /\ HasId(local, id)
          /\ \/ \E status \in StatusValues : UpdateStatus(id, status)
             \/ \E status \in StatusValues : Update(id, status)
             \/ MarkReturned(id)
             \/ Delete(id)

\* C28 as stated: completing an update, status update, mark-returned or
\* delete of a local-origin feedback or lost & found record does not
\* invalidate the query, so no refetch of the remote list follows.
C28_AsStated == [][LocalChangeStep => refetch' = refetch]_vars

\* the users whose ledger holds the direction d for the record id
Holders(id, d) == {u \in Users : MapGet(ReadLedger(u), id) = d}

\* C29 as stated: for every local-origin record of the local list, upvotes is
\* at least the number of users whose ledger holds up for it, downvotes at
\* least the number whose ledger holds down, likes at least the number whose
\* like map holds it.
C29_AsStated ==
    \A i \in 1..Len(local) :
        IsLocalId(kind, local[i].id) =>
            /\ local[i].upvotes >= Cardinality(Holders(local[i].id, "up"))
            /\ local[i].downvotes >= Cardinality(Holders(local[i].id, "down"))
            /\ local[i].likes >= Cardinality(Holders(local[i].id, "liked"))

\* C30 as stated: after every completed operation that changes the local
\* list, the collection persisted under the store key equals the local list.
C30_AsStated == [][local' # local => store' = local']_vars

====
